---------------------------- MODULE Spec2Model ----------------------------
(***************************************************************************)
(* Model of the stressed-scenario engine: compute_shock (engine.rs) and    *)
(* the six numerical stages of math.rs.                                    *)
(*                                                                         *)
(* Numbers.  The stages compute in f64.  A number is modelled exactly as a *)
(* quotient n/d of two polynomials in the symbol e, where e stands for the *)
(* constant eps = 1e-10 of nearest_pd.  A polynomial is the sequence of    *)
(* its integer coefficients, lowest power first.  Because every            *)
(* coefficient is a machine integer (below 2^31) and e = 1e-10, the sign   *)
(* of a polynomial is the sign of its lowest-order nonzero coefficient:    *)
(* the higher terms sum to less than 2^31 * 1.0000000001e-10 < 1.          *)
(* Rounding of f64 operations is not modelled.                             *)
(***************************************************************************)
EXTENDS Integers, Sequences, FiniteSets, TLC

(***************************************************************************)
(* Polynomials in e                                                        *)
(***************************************************************************)
Abs(a) == IF a < 0 THEN -a ELSE a

MaxOf(a, b) == IF a >= b THEN a ELSE b

RECURSIVE Gcd(_, _)
Gcd(a, b) == IF b = 0 THEN Abs(a) ELSE Gcd(b, a % Abs(b))

RECURSIVE PTrim(_)
PTrim(p) ==
    IF p = << >> THEN << >>
    ELSE IF p[Len(p)] = 0 THEN PTrim(SubSeq(p, 1, Len(p) - 1))
    ELSE p

Coef(p, i) == IF i >= 1 /\ i <= Len(p) THEN p[i] ELSE 0

PAdd(p, q) == PTrim([i \in 1..MaxOf(Len(p), Len(q)) |-> Coef(p, i) + Coef(q, i)])

PNeg(p) == [i \in 1..Len(p) |-> -p[i]]

PSub(p, q) == PAdd(p, PNeg(q))

RECURSIVE SumTo(_, _, _, _)
SumTo(p, q, k, i) ==
    IF i > k THEN 0 ELSE Coef(p, i) * Coef(q, k + 1 - i) + SumTo(p, q, k, i + 1)

PMul(p, q) ==
    IF p = << >> \/ q = << >> THEN << >>
    ELSE PTrim([k \in 1..(Len(p) + Len(q) - 1) |-> SumTo(p, q, k, 1)])

RECURSIVE PSign(_)
PSign(p) ==
    IF p = << >> THEN 0
    ELSE IF p[1] > 0 THEN 1
    ELSE IF p[1] < 0 THEN -1
    ELSE PSign(Tail(p))

RECURSIVE PGcd(_)
PGcd(p) == IF p = << >> THEN 0 ELSE Gcd(p[1], PGcd(Tail(p)))

PDivInt(p, g) == [i \in 1..Len(p) |-> p[i] \div g]

\* Number of leading zero coefficients (the power of e that divides p).
RECURSIVE POrder(_)
POrder(p) == IF p = << >> \/ p[1] # 0 THEN 0 ELSE 1 + POrder(Tail(p))

PShift(p, k) == SubSeq(p, k + 1, Len(p))

(***************************************************************************)
(* Numbers n/d                                                             *)
(***************************************************************************)
Zero == [n |-> << >>, d |-> <<1>>]

Norm(n0, d0) ==
    LET n == PTrim(n0)
        d == PTrim(d0)
    IN  IF n = << >> THEN Zero
        ELSE IF d = << >> THEN [n |-> n, d |-> << >>]
        ELSE LET k  == IF POrder(n) < POrder(d) THEN POrder(n) ELSE POrder(d)
                 n1 == PShift(n, k)
                 d1 == PShift(d, k)
                 g  == Gcd(PGcd(n1), PGcd(d1))
                 s  == PSign(d1)
             IN  [n |-> PDivInt(n1, g * s), d |-> PDivInt(d1, g * s)]

NInt(k) == Norm(<<k>>, <<1>>)

NFrac(a, b) == Norm(<<a>>, <<b>>)

One == NInt(1)

\* a + b over the least common denominator when the two denominators differ
\* by an integer factor only, over their product otherwise.
NAdd(a, b) ==
    IF a.n = << >> THEN b
    ELSE IF b.n = << >> THEN a
    ELSE LET ca == PGcd(a.d)
             cb == PGcd(b.d)
         IN  IF ca # 0 /\ cb # 0 /\ PDivInt(a.d, ca) = PDivInt(b.d, cb)
             THEN LET g == Gcd(ca, cb)
                  IN  Norm(PAdd(PMul(a.n, <<cb \div g>>), PMul(b.n, <<ca \div g>>)),
                           PMul(a.d, <<cb \div g>>))
             ELSE Norm(PAdd(PMul(a.n, b.d), PMul(b.n, a.d)), PMul(a.d, b.d))

NNeg(a) == [n |-> PNeg(a.n), d |-> a.d]

NSub(a, b) == NAdd(a, NNeg(b))

\* (n1/d1) * (n2/d2), the integer factors common to n1, d2 and to n2, d1
\* cancelled before the products are formed.
MulQuot(n1, d1, n2, d2) ==
    IF n1 = << >> \/ n2 = << >> THEN Zero
    ELSE IF d1 = << >> \/ d2 = << >> THEN [n |-> PMul(n1, n2), d |-> << >>]
    ELSE LET g1 == Gcd(PGcd(n1), PGcd(d2))
             g2 == Gcd(PGcd(n2), PGcd(d1))
         IN  Norm(PMul(PDivInt(n1, g1), PDivInt(n2, g2)),
                  PMul(PDivInt(d1, g2), PDivInt(d2, g1)))

NMul(a, b) == MulQuot(a.n, a.d, b.n, b.d)

NDiv(a, b) == MulQuot(a.n, a.d, b.d, b.n)

NSign(a) == PSign(a.n) * PSign(a.d)

NLt(a, b) == NSign(NSub(a, b)) < 0

NEq(a, b) == NSign(NSub(a, b)) = 0

NIsZero(a) == PSign(a.n) = 0


(***************************************************************************)
(* Vectors are sequences of numbers; an n x n matrix is a sequence of n    *)
(* rows, m[i][j] being nalgebra's m[(i-1, j-1)].                           *)
(***************************************************************************)
RECURSIVE SumSeq(_)
SumSeq(s) == IF s = << >> THEN Zero ELSE NAdd(Head(s), SumSeq(Tail(s)))

nrows(m) == Len(m)

MSub(a, b) == [i \in 1..nrows(a) |-> [j \in 1..nrows(a) |-> NSub(a[i][j], b[i][j])]]

transpose(m) == [i \in 1..nrows(m) |-> [j \in 1..nrows(m) |-> m[j][i]]]

zeros(n) == [i \in 1..n |-> [j \in 1..n |-> Zero]]

\* Frobenius norm, squared: DMatrix::norm() is the square root of this.
NormSq(m) == SumSeq([i \in 1..nrows(m) |-> SumSeq([j \in 1..nrows(m) |-> NMul(m[i][j], m[i][j])])])

(***************************************************************************)
(* math.rs, steps 1 to 3                                                   *)
(***************************************************************************)
adjust_drift(base, delta) == [i \in 1..Len(base) |-> NAdd(base[i], delta[i])]

adjust_vol(base, multiplier) == [i \in 1..Len(base) |-> NMul(base[i], multiplier[i])]

blend_correlation(r_base, skew) ==
    LET n == nrows(r_base)
    IN  [i \in 1..n |-> [j \in 1..n |->
            NAdd(NMul(r_base[i][j], NSub(One, skew)), NMul(One, skew))]]

(***************************************************************************)
(* math.rs, step 4: nearest_pd                                             *)
(***************************************************************************)
max_iter == 100

eps == Norm(<<0, 1>>, <<1>>)

Half == NFrac(1, 2)

\* let mut y = (mat + mat.transpose()) * 0.5
Symmetrize(m) ==
    [i \in 1..nrows(m) |-> [j \in 1..nrows(m) |-> NMul(NAdd(m[i][j], transpose(m)[i][j]), Half)]]

(***************************************************************************)
(* r.symmetric_eigen() for the matrices this model feeds it: symmetric     *)
(* with one value a on the diagonal and one value b off it, a*I + b*(J-I). *)
(* Its eigenvalues are a + (n-1)b on the vector of ones and a - b, n-1     *)
(* times, on its orthogonal complement.  The eigenvectors are kept         *)
(* implicit: V * diag(vals) * V^T is vals[1] * J/n plus, for the           *)
(* complement (whose clamped values agree), vals[2] * (I - J/n).           *)
(***************************************************************************)
Equicorrelated(m) ==
    \A i, j \in 1..nrows(m) :
        /\ m[i][i] = m[1][1]
        /\ i # j => m[i][j] = m[1][IF nrows(m) > 1 THEN 2 ELSE 1]

symmetric_eigenvalues(r) ==
    LET n == nrows(r)
        a == r[1][1]
        b == IF n > 1 THEN r[1][2] ELSE Zero
    IN  [k \in 1..n |-> IF k = 1 THEN NAdd(a, NMul(NInt(n - 1), b)) ELSE NSub(a, b)]

\* for v in vals.iter_mut() { if *v < eps { *v = eps; } }
ClampEigenvalues(vals) == [k \in 1..Len(vals) |-> IF NLt(vals[k], eps) THEN eps ELSE vals[k]]

\* eigenvectors * from_diagonal(vals) * eigenvectors.transpose()
Reconstruct(vals) ==
    LET n == Len(vals)
        onesPart == NDiv(vals[1], NInt(n))
        rest     == IF n > 1 THEN vals[2] ELSE Zero
    IN  [i \in 1..n |-> [j \in 1..n |->
            NAdd(onesPart,
                 NMul(rest, NSub(IF i = j THEN One ELSE Zero, NDiv(One, NInt(n)))))]]

\* for i in 0..n { m[(i, i)] = 1.0; }
UnitDiagonal(m) == [i \in 1..nrows(m) |-> [j \in 1..nrows(m) |-> IF i = j THEN One ELSE m[i][j]]]

\* diff < eps * 10.0, with diff = (&y - &x_pos).norm() >= 0
Converged(yy, xx) ==
    NLt(NormSq(MSub(yy, xx)), NMul(NMul(eps, NInt(10)), NMul(eps, NInt(10))))

\* The loop bound off by one: 0..=max_iter.
LoopContinuesInclusive(k) == k <= max_iter

\* for _ in 0..max_iter: whether an iteration follows k completed ones
LoopContinues(k) == k < max_iter

\* One pass of the loop body.
PdBody(yy, dd) ==
    LET r  == MSub(yy, dd)
        xp == Reconstruct(ClampEigenvalues(symmetric_eigenvalues(r)))
        y2 == UnitDiagonal(xp)
    IN  [y |-> y2, ds |-> MSub(xp, r), x_pos |-> xp, brk |-> Converged(y2, xp)]

\* The closing loop writing out[(i, 0)] instead of out[(i, i)].
FinalizePdFirstColumn(yy) ==
    [i \in 1..nrows(yy) |-> [j \in 1..nrows(yy) |-> IF j = 1 THEN One ELSE Symmetrize(yy)[i][j]]]

\* Final symmetrize + enforce unit diagonal
FinalizePd(yy) == UnitDiagonal(Symmetrize(yy))

(***************************************************************************)
(* math.rs, step 5 and 6                                                   *)
(***************************************************************************)
\* &d * r * &d with d = from_diagonal(sigma)
rebuild_covariance(sigma, r) ==
    [i \in 1..nrows(r) |-> [j \in 1..nrows(r) |-> NMul(NMul(sigma[i], r[i][j]), sigma[j])]]

CholeskyErr == "Cholesky decomposition failed: matrix is not positive-definite"

(***************************************************************************)
(* Cholesky::new works column by column.  When it reaches column j the     *)
(* entry (i,j), i >= j, holds u(i,j) = sigma[i][j] minus the sum over      *)
(* k < j of L[i][k] * L[j][k]: the Schur complement of the leading         *)
(* (j-1) x (j-1) block, which is the quotient of two determinants,         *)
(*     u(i,j) = det(rows 1..j-1 and i, columns 1..j) / det(leading j-1).   *)
(* The pivot of column j is u(j,j); the column is given up, and None       *)
(* returned, when the pivot is zero or has no real square root, and        *)
(* otherwise L[i][j] = u(i,j) / sqrt(u(j,j)).  Square roots are not taken: *)
(* an entry of L is the pair (num, rad) standing for num / sqrt(rad), with *)
(* num = u(i,j) and rad = u(j,j).                                          *)
(***************************************************************************)
\* m without row r and column c
Minor(m, r, c) ==
    [i \in 1..(nrows(m) - 1) |-> [j \in 1..(nrows(m) - 1) |->
        m[IF i < r THEN i ELSE i + 1][IF j < c THEN j ELSE j + 1]]]

RECURSIVE Det(_)
Det(m) ==
    IF nrows(m) = 0 THEN One
    ELSE IF nrows(m) = 1 THEN m[1][1]
    ELSE SumSeq([j \in 1..nrows(m) |->
            NMul(IF j % 2 = 1 THEN m[1][j] ELSE NNeg(m[1][j]), Det(Minor(m, 1, j)))])

\* Rows 1..j-1 and i, columns 1..j, of sigma.
Bordered(sigma, i, j) ==
    [r \in 1..j |-> [c \in 1..j |-> sigma[IF r = j THEN i ELSE r][c]]]

Leading(sigma, j) == Bordered(sigma, j, j)

Pivot(sigma, j) == NDiv(Det(Leading(sigma, j)), Det(Leading(sigma, j - 1)))

\* Only a negative pivot refused: a zero pivot passes.
PivotOkZeroAccepted(diag) == NSign(diag) >= 0

\* if !diag.is_zero() { if let Some(denom) = diag.try_sqrt() { ... } }  else None
PivotOk(diag) == NSign(diag) > 0

\* The columns up to j are factorized: no pivot among them was refused.
RECURSIVE ColumnsOk(_, _)
ColumnsOk(sigma, j) ==
    IF j = 0 THEN TRUE
    ELSE ColumnsOk(sigma, j - 1) /\ PivotOk(Pivot(sigma, j))

RootZero == [num |-> Zero, rad |-> One]

\* chol.l(): the lower triangle, the strictly upper part filled with zeros
LowerFactor(sigma) ==
    [i \in 1..nrows(sigma) |-> [j \in 1..nrows(sigma) |->
        IF j > i THEN RootZero
        ELSE [num |-> NDiv(Det(Bordered(sigma, i, j)), Det(Leading(sigma, j - 1))),
              rad |-> Pivot(sigma, j)]]]

cholesky_decompose(sigma) ==
    IF ColumnsOk(sigma, nrows(sigma))
    THEN [ok |-> TRUE, l |-> LowerFactor(sigma), err |-> ""]
    ELSE [ok |-> FALSE, l |-> << >>, err |-> CholeskyErr]

(***************************************************************************)
(* engine.rs: the boundary values                                          *)
(*                                                                         *)
(* An f32 buffer entry is a number; widening it to f64 (x as f64) is exact.*)
(* Narrowing (x as f32) keeps 24 significant bits, far coarser than the    *)
(* relative size 1e-10 of e: it keeps the leading term in e and drops the  *)
(* rest.  The three jump scalars are f32 values that may also be NaN or    *)
(* infinite; they carry their class in "kind".                             *)
(***************************************************************************)
ToF64(x) == x

RECURSIVE LeadTerm(_)
LeadTerm(p) ==
    IF p = << >> THEN << >>
    ELSE IF p[1] # 0 THEN <<p[1]>>
    ELSE <<0>> \o LeadTerm(Tail(p))

ToF32(x) == Norm(LeadTerm(x.n), LeadTerm(x.d))

ToF32Root(e) == [num |-> ToF32(e.num), rad |-> ToF32(e.rad)]

Finite(k) == [kind |-> "finite", v |-> k]

NaN == [kind |-> "nan", v |-> 0]

Infinity == [kind |-> "inf", v |-> 0]

is_finite(x) == x.kind = "finite"

NoScalar == [kind |-> "none", v |-> 0]

NoResult ==
    [adjusted_drift |-> << >>, adjusted_vol |-> << >>, cholesky_l |-> << >>,
     num_assets |-> 0, jump_lambda |-> NoScalar, jump_mean |-> NoScalar,
     jump_vol |-> NoScalar]

\* JsValue::from_str(text); nums are the values format! put into the text
JsStr(text, nums) == [text |-> text, nums |-> nums]

NoErr == JsStr("", << >>)

Pending == [tag |-> "Pending", val |-> NoResult, err |-> NoErr]

(***************************************************************************)
(* The calls explored                                                      *)
(***************************************************************************)
MaxAssets == 3

TemplDrift == <<8, 3, 5>>
TemplVol   == <<1, 3, 1>>
TemplDelta == <<-15, 5, -8>>
TemplMult  == <<2, 1, 4>>

\* A buffer of len entries cycling through a template, each over scale.
Buffer(tmpl, scale, len) == [i \in 1..len |-> NFrac(tmpl[((i - 1) % 3) + 1], scale)]

\* The volatility multipliers, entry z (if any) being zero.
MultBuffer(len, z) ==
    [i \in 1..len |-> IF i = z THEN Zero ELSE Buffer(TemplMult, 1, len)[i]]

\* Row-major n x n buffer cut or extended to len entries: a on the
\* diagonal, up above it and lo below it.
CorrBuffer(n, len, a, up, lo) ==
    [k \in 1..len |->
        LET i == ((k - 1) \div n) + 1
            j == ((k - 1) % n) + 1
        IN  IF i = j THEN a ELSE IF j > i THEN up ELSE lo]

\* Base correlation (a, up, lo) and skew.  Every blend of these keeps one
\* value on the diagonal and, once symmetrized, one value off it.
Scenarios ==
    { [a |-> One, up |-> NFrac(1, 5), lo |-> NFrac(1, 5), skew |-> Zero],
      [a |-> One, up |-> NFrac(1, 5), lo |-> NFrac(1, 5), skew |-> NFrac(17, 20)],
      [a |-> One, up |-> NFrac(9, 10), lo |-> NFrac(9, 10), skew |-> Zero],
      [a |-> One, up |-> NFrac(3, 10), lo |-> NFrac(1, 10), skew |-> NFrac(1, 2)],
      [a |-> One, up |-> NFrac(1, 5), lo |-> NFrac(1, 5), skew |-> One],
      [a |-> NInt(-3), up |-> Zero, lo |-> Zero, skew |-> Zero],
      [a |-> NInt(-200), up |-> Zero, lo |-> Zero, skew |-> Zero] }

JumpChoices ==
    { <<Finite(2), Finite(-5), Finite(10)>>,
      <<NaN, Finite(-5), Finite(10)>>,
      <<Finite(2), Infinity, Finite(7)>> }

\* By how much each of the five buffers is too short or too long: all
\* right, or one or two of them wrong.
LenDeltas ==
    { dl \in [1..5 -> {-1, 0, 1}] : Cardinality({b \in 1..5 : dl[b] # 0}) <= 2 }

MakeArgs(n, dl, sc, z, jp) ==
    [num_assets       |-> n,
     base_drift       |-> Buffer(TemplDrift, 100, n + dl[1]),
     base_vol         |-> Buffer(TemplVol, 2, n + dl[2]),
     base_correlation |-> CorrBuffer(n, n * n + dl[3], sc.a, sc.up, sc.lo),
     delta_drift      |-> Buffer(TemplDelta, 100, n + dl[4]),
     vol_multiplier   |-> MultBuffer(n + dl[5], z),
     correlation_skew |-> sc.skew,
     jump_lambda      |-> jp[1],
     jump_mean        |-> jp[2],
     jump_vol         |-> jp[3]]

NoArgs ==
    [num_assets |-> 0, base_drift |-> << >>, base_vol |-> << >>,
     base_correlation |-> << >>, delta_drift |-> << >>, vol_multiplier |-> << >>,
     correlation_skew |-> Zero, jump_lambda |-> NoScalar, jump_mean |-> NoScalar,
     jump_vol |-> NoScalar]

NoConv ==
    [base_drift_v |-> << >>, base_vol_v |-> << >>, base_corr_m |-> << >>,
     delta_drift_v |-> << >>, vol_mult_v |-> << >>]

(***************************************************************************)
(* State                                                                   *)
(***************************************************************************)
VARIABLES
    pc,         \* the statement compute_shock (or nearest_pd) is at
    args,       \* the arguments of the call
    conv,       \* the f64 vectors and matrix of lines 96-106
    adj_drift, adj_vol, blended, pd, cov, l,   \* the locals of lines 110-126
    mat, y, ds, x_pos, iter,                   \* the argument and locals of nearest_pd
    ret,        \* what the call returned
    stages      \* history: the math.rs functions called so far, in order

vars == <<pc, args, conv, adj_drift, adj_vol, blended, pd, cov, l,
          mat, y, ds, x_pos, iter, ret, stages>>

pdVars == <<mat, y, ds, x_pos, iter>>

Init ==
    /\ pc = "idle"
    /\ args = NoArgs
    /\ conv = NoConv
    /\ adj_drift = << >> /\ adj_vol = << >> /\ blended = << >>
    /\ pd = << >> /\ cov = << >> /\ l = << >>
    /\ mat = << >> /\ y = << >> /\ ds = << >> /\ x_pos = << >> /\ iter = 0
    /\ ret = Pending
    /\ stages = << >>

\* JS calls compute_shock with some arguments.
Call ==
    /\ pc = "idle"
    /\ \E n \in 1..MaxAssets, dl \in LenDeltas, sc \in Scenarios, jp \in JumpChoices :
         \E z \in 0..n :
            args' = MakeArgs(n, dl, sc, z, jp)
    /\ pc' = "validate"
    /\ UNCHANGED <<conv, adj_drift, adj_vol, blended, pd, cov, l, pdVars, ret, stages>>

(***************************************************************************)
(* compute_shock                                                           *)
(***************************************************************************)
\* The correlation length compared with < instead of !=.
LengthsOkLongCorrAccepted(a) ==
    LET n == a.num_assets
    IN  ~ (\/ Len(a.base_drift) # n
           \/ Len(a.base_vol) # n
           \/ Len(a.base_correlation) < n * n
           \/ Len(a.delta_drift) # n
           \/ Len(a.vol_multiplier) # n)

\* The negation of the condition of lines 78-82.
LengthsOk(a) ==
    LET n == a.num_assets
    IN  ~ (\/ Len(a.base_drift) # n
           \/ Len(a.base_vol) # n
           \/ Len(a.base_correlation) # n * n
           \/ Len(a.delta_drift) # n
           \/ Len(a.vol_multiplier) # n)

\* A validation that also refuses jump scalars that are not finite.
ValidatedFiniteJumps(a) ==
    /\ Len(a.base_drift) = a.num_assets
    /\ Len(a.base_vol) = a.num_assets
    /\ Len(a.base_correlation) = a.num_assets * a.num_assets
    /\ Len(a.delta_drift) = a.num_assets
    /\ Len(a.vol_multiplier) = a.num_assets
    /\ is_finite(a.jump_lambda) /\ is_finite(a.jump_mean) /\ is_finite(a.jump_vol)

\* Whether the call gets past the early return of lines 78-93.
Validated(a) == LengthsOk(a)

\* The Err of lines 84-92.
LengthMismatch(a) ==
    JsStr("Input length mismatch: expected N={}, got drift={}, vol={}, corr={}, dd={}, vm={}",
          <<a.num_assets, Len(a.base_drift), Len(a.base_vol), Len(a.base_correlation),
            Len(a.delta_drift), Len(a.vol_multiplier)>>)

\* DVector::from_vec of the widened buffer
from_vec(buf) == [i \in 1..Len(buf) |-> ToF64(buf[i])]

\* DMatrix::from_row_slice(n, n, &bc)
from_row_slice(n, buf) == [i \in 1..n |-> [j \in 1..n |-> ToF64(buf[(i - 1) * n + j])]]

Convert(a) ==
    [base_drift_v  |-> from_vec(a.base_drift),
     base_vol_v    |-> from_vec(a.base_vol),
     base_corr_m   |-> from_row_slice(a.num_assets, a.base_correlation),
     delta_drift_v |-> from_vec(a.delta_drift),
     vol_mult_v    |-> from_vec(a.vol_multiplier)]

\* Lines 77-106: the length check, then the conversion to f64.
Validate ==
    /\ pc = "validate"
    /\ IF Validated(args)
       THEN /\ conv' = Convert(args)
            /\ pc' = "adjust_drift"
            /\ ret' = ret
       ELSE /\ ret' = [tag |-> "Err", val |-> NoResult, err |-> LengthMismatch(args)]
            /\ pc' = "returned"
            /\ conv' = conv
    /\ UNCHANGED <<args, adj_drift, adj_vol, blended, pd, cov, l, pdVars, stages>>

\* Line 110
StepAdjustDrift ==
    /\ pc = "adjust_drift"
    /\ adj_drift' = adjust_drift(conv.base_drift_v, conv.delta_drift_v)
    /\ stages' = Append(stages, "adjust_drift")
    /\ pc' = "adjust_vol"
    /\ UNCHANGED <<args, conv, adj_vol, blended, pd, cov, l, pdVars, ret>>

\* Line 113
StepAdjustVol ==
    /\ pc = "adjust_vol"
    /\ adj_vol' = adjust_vol(conv.base_vol_v, conv.vol_mult_v)
    /\ stages' = Append(stages, "adjust_vol")
    /\ pc' = "blend_correlation"
    /\ UNCHANGED <<args, conv, adj_drift, blended, pd, cov, l, pdVars, ret>>

\* Line 116
StepBlend ==
    /\ pc = "blend_correlation"
    /\ blended' = blend_correlation(conv.base_corr_m, ToF64(args.correlation_skew))
    /\ stages' = Append(stages, "blend_correlation")
    /\ pc' = "nearest_pd"
    /\ UNCHANGED <<args, conv, adj_drift, adj_vol, pd, cov, l, pdVars, ret>>

\* nearest_pd handed the base correlation instead of the blend.
NearestPdArgBase == conv.base_corr_m

\* The argument of the call of line 119.
NearestPdArg == blended

\* nearest_pd is entered: lines 34-40.
PdBegin ==
    /\ pc = "nearest_pd"
    /\ mat' = NearestPdArg
    /\ y' = Symmetrize(NearestPdArg)
    /\ ds' = zeros(nrows(NearestPdArg))
    /\ x_pos' = << >>
    /\ iter' = 0
    /\ stages' = Append(stages, "nearest_pd")
    /\ pc' = IF LoopContinues(0) THEN "pd_loop" ELSE "pd_exit"
    /\ UNCHANGED <<args, conv, adj_drift, adj_vol, blended, pd, cov, l, ret>>

\* One iteration of the loop of lines 42-70; iter counts the iterations run.
PdIter ==
    /\ pc = "pd_loop"
    /\ LET b == PdBody(y, ds)
       IN  /\ y' = b.y
           /\ ds' = b.ds
           /\ x_pos' = b.x_pos
           /\ iter' = iter + 1
           /\ pc' = IF b.brk \/ ~LoopContinues(iter + 1) THEN "pd_exit" ELSE "pd_loop"
    /\ UNCHANGED <<args, conv, adj_drift, adj_vol, blended, pd, cov, l, mat, ret, stages>>

\* Lines 72-78: nearest_pd returns to line 119.
PdExit ==
    /\ pc = "pd_exit"
    /\ pd' = FinalizePd(y)
    /\ pc' = "rebuild_covariance"
    /\ UNCHANGED <<args, conv, adj_drift, adj_vol, blended, cov, l, pdVars, ret, stages>>

\* The arguments of the call of line 122.
RebuildArgs == [sigma |-> adj_vol, r |-> pd]

\* Line 122
StepRebuild ==
    /\ pc = "rebuild_covariance"
    /\ cov' = rebuild_covariance(RebuildArgs.sigma, RebuildArgs.r)
    /\ stages' = Append(stages, "rebuild_covariance")
    /\ pc' = "cholesky_decompose"
    /\ UNCHANGED <<args, conv, adj_drift, adj_vol, blended, pd, l, pdVars, ret>>

\* The factorizer's message replaced by one of the caller's own.
MapErrReworded(e) == JsStr("factorization failed", << >>)

\* .map_err(|e| JsValue::from_str(e))
MapErr(e) == JsStr(e, << >>)

\* Lines 125-126: the factorization, and the early return of "?".
StepCholesky ==
    /\ pc = "cholesky_decompose"
    /\ stages' = Append(stages, "cholesky_decompose")
    /\ LET c == cholesky_decompose(cov)
       IN  IF c.ok
           THEN /\ l' = c.l
                /\ pc' = "pack"
                /\ ret' = ret
           ELSE /\ ret' = [tag |-> "Err", val |-> NoResult, err |-> MapErr(c.err)]
                /\ pc' = "returned"
                /\ l' = l
    /\ UNCHANGED <<args, conv, adj_drift, adj_vol, blended, pd, cov, pdVars>>

\* L flattened column by column.
FlattenLColumnMajor(lm, n) ==
    [k \in 1..(n * n) |-> ToF32Root(lm[((k - 1) % n) + 1][((k - 1) \div n) + 1])]

\* Lines 133-138: L flattened row by row.
FlattenL(lm, n) ==
    [k \in 1..(n * n) |-> ToF32Root(lm[((k - 1) \div n) + 1][((k - 1) % n) + 1])]

\* jump_mean and jump_vol exchanged while packing.
MakeResultSwapped(a, drift, vol, lm) ==
    [adjusted_drift |-> [i \in 1..Len(drift) |-> ToF32(drift[i])],
     adjusted_vol   |-> [i \in 1..Len(vol) |-> ToF32(vol[i])],
     cholesky_l     |-> [k \in 1..(a.num_assets * a.num_assets) |->
                            ToF32Root(lm[((k - 1) \div a.num_assets) + 1][((k - 1) % a.num_assets) + 1])],
     num_assets     |-> a.num_assets,
     jump_lambda    |-> a.jump_lambda,
     jump_mean      |-> a.jump_vol,
     jump_vol       |-> a.jump_mean]

\* Lines 129-148
MakeResult(a, drift, vol, lm) ==
    [adjusted_drift |-> [i \in 1..Len(drift) |-> ToF32(drift[i])],
     adjusted_vol   |-> [i \in 1..Len(vol) |-> ToF32(vol[i])],
     cholesky_l     |-> FlattenL(lm, a.num_assets),
     num_assets     |-> a.num_assets,
     jump_lambda    |-> a.jump_lambda,
     jump_mean      |-> a.jump_mean,
     jump_vol       |-> a.jump_vol]

Pack ==
    /\ pc = "pack"
    /\ ret' = [tag |-> "Ok", val |-> MakeResult(args, adj_drift, adj_vol, l), err |-> NoErr]
    /\ pc' = "returned"
    /\ UNCHANGED <<args, conv, adj_drift, adj_vol, blended, pd, cov, l, pdVars, stages>>

Next ==
    \/ Call
    \/ Validate
    \/ StepAdjustDrift
    \/ StepAdjustVol
    \/ StepBlend
    \/ PdBegin
    \/ PdIter
    \/ PdExit
    \/ StepRebuild
    \/ StepCholesky
    \/ Pack

Spec == Init /\ [][Next]_vars

(***************************************************************************)
(* nearest_pd on its own: any f64 matrix may be passed to it.              *)
(***************************************************************************)
Matrix(n, a, up, lo) ==
    [i \in 1..n |-> [j \in 1..n |-> IF i = j THEN a ELSE IF j > i THEN up ELSE lo]]

NearOne == NAdd(One, NMul(NInt(3), eps))

PdInputs ==
    { Matrix(n, e[1], e[2], e[3]) :
        n \in 1..MaxAssets,
        e \in { <<One, NFrac(1, 5), NFrac(1, 5)>>,
                <<One, NFrac(9, 10), NFrac(9, 10)>>,
                <<One, NFrac(3, 10), NFrac(1, 10)>>,
                <<One, One, One>>,
                <<One, NearOne, NearOne>>,
                <<NInt(2), Zero, Zero>>,
                <<Zero, Zero, Zero>>,
                <<NInt(-3), Zero, Zero>>,
                <<NInt(-200), Zero, Zero>> } }

InitPD ==
    /\ pc = "nearest_pd"
    /\ blended \in PdInputs
    /\ args = NoArgs
    /\ conv = NoConv
    /\ adj_drift = << >> /\ adj_vol = << >>
    /\ pd = << >> /\ cov = << >> /\ l = << >>
    /\ mat = << >> /\ y = << >> /\ ds = << >> /\ x_pos = << >> /\ iter = 0
    /\ ret = Pending
    /\ stages = << >>

NextPD == PdBegin \/ PdIter \/ PdExit

SpecPD == InitPD /\ [][NextPD]_vars

\* The eigensolver model applies: what it is given has one diagonal and one
\* off-diagonal value.
EigenInputOk == pc = "pd_loop" => Equicorrelated(MSub(y, ds))

(***************************************************************************)
(* Properties                                                              *)
(***************************************************************************)
StageOrder ==
    <<"adjust_drift", "adjust_vol", "blend_correlation", "nearest_pd",
      "rebuild_covariance", "cholesky_decompose">>

Returned == pc = "returned"

\* Every buffer has the length the declared asset count asks for.
RightLengths(a) ==
    /\ Len(a.base_drift) = a.num_assets
    /\ Len(a.base_vol) = a.num_assets
    /\ Len(a.delta_drift) = a.num_assets
    /\ Len(a.vol_multiplier) = a.num_assets
    /\ Len(a.base_correlation) = a.num_assets * a.num_assets

AllFinite(a) == is_finite(a.jump_lambda) /\ is_finite(a.jump_mean) /\ is_finite(a.jump_vol)

IsSquare(m, n) == nrows(m) = n /\ \A i \in 1..n : Len(m[i]) = n

\* C1: a call in which one of the five buffers has the wrong length returns
\* the length-mismatch error, and no stage of the pipeline has been run:
\* from the length check on, such a call is returned with no stage in its
\* history.
C1_LengthMismatchRejected ==
    (pc \notin {"idle", "validate"} /\ ~RightLengths(args)) =>
        /\ Returned
        /\ ret = [tag |-> "Err", val |-> NoResult, err |-> LengthMismatch(args)]
        /\ stages = << >>
        /\ conv = NoConv

\* C1 witness: N = 3 with a correlation buffer of 8 entries, all other
\* buffers right, has been rejected.
C1_Witness ==
    /\ Returned
    /\ args.num_assets = 3
    /\ Len(args.base_correlation) = 8
    /\ Len(args.base_drift) = 3 /\ Len(args.base_vol) = 3
    /\ Len(args.delta_drift) = 3 /\ Len(args.vol_multiplier) = 3
    /\ ret.tag = "Err"
    /\ stages = << >>

\* C2: nearest_pd runs at most max_iter (100) iterations of its loop, leaves
\* the loop before the bound only when the norm of y - x_pos is below
\* 10 * eps, and then returns a square matrix: it never makes the call fail.
C2_PdLoopBounded ==
    /\ iter <= max_iter
    /\ pc = "pd_loop" => iter < max_iter
    /\ pc = "pd_exit" => (iter < max_iter => Converged(y, x_pos))
    /\ pc \in {"pd_loop", "pd_exit", "rebuild_covariance"} => ret = Pending
    /\ pc = "rebuild_covariance" => IsSquare(pd, nrows(mat))

\* C2 witness: the loop has run all 100 iterations without converging, and
\* nearest_pd has returned.
C2_Witness ==
    /\ pc = "rebuild_covariance"
    /\ iter = max_iter
    /\ ~Converged(y, x_pos)
    /\ IsSquare(pd, nrows(mat))

\* C3: the matrix nearest_pd returns is symmetric and has ones on its
\* diagonal, whichever way the loop was left.
C3_PdSymmetricUnitDiagonal ==
    pc = "rebuild_covariance" =>
        \A i, j \in 1..nrows(pd) :
            /\ NEq(pd[i][j], pd[j][i])
            /\ pd[i][i] = One

\* C3 witness: nearest_pd has returned for an input that was not symmetric,
\* having left the loop on convergence.
C3_Witness ==
    /\ pc = "rebuild_covariance"
    /\ nrows(mat) >= 2
    /\ ~NEq(mat[1][2], mat[2][1])
    /\ iter < max_iter

\* The eigenvalues of a returned matrix are all strictly positive.
PositiveDefinite(m) ==
    \A k \in 1..nrows(m) : NSign(symmetric_eigenvalues(m)[k]) > 0

IsSymmetric(m) == \A i, j \in 1..nrows(m) : NEq(m[i][j], m[j][i])

\* C4: for a symmetric input, the matrix nearest_pd returns has all its
\* eigenvalues strictly positive.
C4_PdPositiveDefinite ==
    (pc = "rebuild_covariance" /\ IsSymmetric(mat)) => PositiveDefinite(pd)

\* C5: a call that passes the length check runs the six stages once each in
\* the fixed order; every stage is given what the earlier ones produced
\* (nearest_pd the blend as it is, rebuild_covariance the adjusted
\* volatilities and nearest_pd's matrix, cholesky_decompose the rebuilt
\* covariance); a result is returned only after cholesky_decompose succeeded.
C5_StagesInOrder ==
    /\ stages = SubSeq(StageOrder, 1, Len(stages))
    /\ (Returned /\ RightLengths(args)) =>
          /\ stages = StageOrder
          /\ adj_drift = adjust_drift(conv.base_drift_v, conv.delta_drift_v)
          /\ adj_vol = adjust_vol(conv.base_vol_v, conv.vol_mult_v)
          /\ blended = blend_correlation(conv.base_corr_m, args.correlation_skew)
          /\ mat = blended
          /\ pd = FinalizePd(y)
          /\ cov = rebuild_covariance(adj_vol, pd)
          /\ ret.tag = "Ok" <=> cholesky_decompose(cov).ok
          /\ ret.tag = "Ok" => l = cholesky_decompose(cov).l
    /\ ret.tag = "Ok" => stages = StageOrder

\* C5 witness: a call with three assets and a blend that differs from the
\* base correlation has returned a result.
C5_Witness ==
    /\ Returned
    /\ ret.tag = "Ok"
    /\ args.num_assets = 3
    /\ blended # conv.base_corr_m
    /\ stages = StageOrder

\* C6: a result holds N adjusted drifts, N adjusted volatilities and N * N
\* entries of the factor, entry (i-1) * N + j being L[i][j] narrowed to f32,
\* and every entry above the diagonal is zero.
C6_ResultShape ==
    ret.tag = "Ok" =>
        LET n == args.num_assets
            v == ret.val
        IN  /\ Len(v.adjusted_drift) = n
            /\ Len(v.adjusted_vol) = n
            /\ Len(v.cholesky_l) = n * n
            /\ \A i, j \in 1..n :
                  /\ v.cholesky_l[(i - 1) * n + j] = ToF32Root(l[i][j])
                  /\ j > i => NIsZero(v.cholesky_l[(i - 1) * n + j].num)

\* C6 witness: a result for three assets whose factor has a nonzero entry
\* below the diagonal.
C6_Witness ==
    /\ ret.tag = "Ok"
    /\ args.num_assets = 3
    /\ Len(ret.val.cholesky_l) = 9
    /\ ~NIsZero(ret.val.cholesky_l[4].num)
    /\ NIsZero(ret.val.cholesky_l[2].num)

\* C7, as claimed: a call in which a jump scalar is NaN or infinite does not
\* return a result.
C7_JumpScalarsValidated ==
    (Returned /\ ~AllFinite(args)) => ret.tag # "Ok"

\* C7, as the code has it: the jump scalars are not validated.  A call in
\* which one of them is NaN or infinite returns a result exactly when its
\* buffers have the right lengths and the factorization succeeds, and the
\* result carries the three scalars as they were passed.
C7_JumpScalarsNotValidated ==
    (Returned /\ ~AllFinite(args)) =>
        /\ ret.tag = "Ok" <=> (RightLengths(args) /\ cholesky_decompose(cov).ok)
        /\ ret.tag = "Ok" =>
              /\ ret.val.jump_lambda = args.jump_lambda
              /\ ret.val.jump_mean = args.jump_mean
              /\ ret.val.jump_vol = args.jump_vol

\* C7 witness: a call with a NaN jump intensity has returned a result.
C7_Witness ==
    /\ Returned
    /\ args.jump_lambda = NaN
    /\ ret.tag = "Ok"
    /\ ret.val.jump_lambda = NaN

\* What the buffers and the skew alone determine: the matrix given to
\* nearest_pd and, from the matrix r it returned, the three outputs.
CoreInput(n, bc, skew) == blend_correlation(from_row_slice(n, bc), ToF64(skew))

CoreOutput(n, bd, bv, dd, vm, r) ==
    LET drift == adjust_drift(from_vec(bd), from_vec(dd))
        vol   == adjust_vol(from_vec(bv), from_vec(vm))
        c     == cholesky_decompose(rebuild_covariance(vol, r))
    IN  [adjusted_drift |-> [i \in 1..n |-> ToF32(drift[i])],
         adjusted_vol   |-> [i \in 1..n |-> ToF32(vol[i])],
         cholesky_l     |-> [k \in 1..(n * n) |->
                                ToF32Root(c.l[((k - 1) \div n) + 1][((k - 1) % n) + 1])]]

\* C8: a result carries the asset count and the three jump scalars as the
\* caller passed them, and its adjusted drift, adjusted volatility and
\* factor are what the buffers and the skew alone determine: nearest_pd was
\* given the blend of the correlation buffer, and the outputs follow from
\* the buffers and the matrix it returned.
C8_JumpScalarsPassThrough ==
    ret.tag = "Ok" =>
        LET v == ret.val
            o == CoreOutput(args.num_assets, args.base_drift, args.base_vol,
                            args.delta_drift, args.vol_multiplier, pd)
        IN  /\ mat = CoreInput(args.num_assets, args.base_correlation, args.correlation_skew)
            /\ v.num_assets = args.num_assets
            /\ v.jump_lambda = args.jump_lambda
            /\ v.jump_mean = args.jump_mean
            /\ v.jump_vol = args.jump_vol
            /\ v.adjusted_drift = o.adjusted_drift
            /\ v.adjusted_vol = o.adjusted_vol
            /\ v.cholesky_l = o.cholesky_l

\* C8 witness: a result for a call whose three jump scalars differ from one
\* another.
C8_Witness ==
    /\ ret.tag = "Ok"
    /\ args.jump_lambda = Finite(2)
    /\ args.jump_mean = Finite(-5)
    /\ args.jump_vol = Finite(10)
    /\ ret.val.jump_mean = Finite(-5)

\* C9: a call ends in exactly one of: a complete result; the length-mismatch
\* error; the factorization error.  The factorization error comes from the
\* cholesky_decompose stage alone, after all six stages ran, with the
\* factorizer's message unchanged; with either error no result is returned.
\* Before the call returns there is neither.
C9_ThreeOutcomes ==
    /\ ~Returned => ret = Pending
    /\ Returned =>
          \/ /\ ret.tag = "Ok"
             /\ ret.err = NoErr
             /\ ret.val # NoResult
             /\ RightLengths(args) /\ cholesky_decompose(cov).ok
          \/ /\ ret.tag = "Err"
             /\ ret.val = NoResult
             /\ ret.err = LengthMismatch(args)
             /\ ~RightLengths(args)
          \/ /\ ret.tag = "Err"
             /\ ret.val = NoResult
             /\ ret.err = JsStr(cholesky_decompose(cov).err, << >>)
             /\ ret.err.text = CholeskyErr
             /\ RightLengths(args) /\ ~cholesky_decompose(cov).ok
             /\ stages = StageOrder

\* C9 witness: a call has returned the factorization error after the
\* adjusted drift and volatility were computed.
C9_Witness ==
    /\ Returned
    /\ ret.tag = "Err"
    /\ ret.err.text = CholeskyErr
    /\ Len(adj_drift) = args.num_assets
    /\ Len(adj_vol) = args.num_assets
    /\ ret.val = NoResult

\* The leading j x j block of m has a determinant that is zero or negative:
\* the factorization meets a zero or negative pivot at column j or before.
BadPivot(m) == \E j \in 1..nrows(m) : NSign(Det(Leading(m, j))) <= 0

ZeroVol == \E i \in 1..Len(adj_vol) : NIsZero(adj_vol[i])

\* C10: cholesky_decompose fails whenever a zero or negative pivot is met;
\* so a correctly shaped call in which some adjusted volatility is zero gets
\* a covariance whose row, column and diagonal entry there are zero, and
\* returns the factorization error.
C10_ZeroVolFails ==
    /\ (pc \in {"cholesky_decompose", "pack", "returned"} /\ RightLengths(args)) =>
          \A i \in 1..Len(adj_vol) :
              NIsZero(adj_vol[i]) =>
                  \A j \in 1..Len(adj_vol) : NIsZero(cov[i][j]) /\ NIsZero(cov[j][i])
    /\ (pc \in {"pack", "returned"} /\ RightLengths(args)) =>
          /\ BadPivot(cov) => (Returned /\ ret.tag = "Err" /\ ret.err.text = CholeskyErr)
          /\ ZeroVol => BadPivot(cov)

\* C10 witness: three assets, the second adjusted volatility zero, and the
\* factorization error returned.
C10_Witness ==
    /\ Returned
    /\ args.num_assets = 3
    /\ RightLengths(args)
    /\ NIsZero(adj_vol[2]) /\ ~NIsZero(adj_vol[1]) /\ ~NIsZero(adj_vol[3])
    /\ ret.tag = "Err"
    /\ ret.err.text = CholeskyErr

=============================================================================
